---- MODULE Spec2Model ----
(***************************************************************************)
(* A model of the Firestore-backed gorilla/sessions store (store.go):      *)
(* the codec (serialize / deserialize), the session operations New, Get    *)
(* and Save, the cookie transport and the Firestore collection they use.   *)
(***************************************************************************)
EXTENDS Integers, Sequences, FiniteSets, TLC

(***************************************************************************)
(* Bounds of the model.                                                    *)
(***************************************************************************)
\* Number of distinct non-empty identifiers (document ids / cookie values).
MaxIds == 2

(***************************************************************************)
(* Program constants.                                                      *)
(***************************************************************************)
\* const maxLength = 2 << 20
maxLength == 2 * (2 ^ 20)

\* The empty string "" as an identifier; identifiers are 1..MaxIds.
EmptyID == 0
IDs == 1 .. MaxIds
IDOrEmpty == 0 .. MaxIds

\* len(id): every non-empty identifier is taken to be 20 bytes long (the
\* length of a Firestore auto-id); the empty one has length 0.
IDLen(id) == IF id = EmptyID THEN 0 ELSE 20

\* The one session / cookie / collection name of the tests.
Names == {"testname"}

(***************************************************************************)
(* Go values as held in session.Values (map[interface{}]interface{}).      *)
(* A value carries its dynamic type t; a string is n bytes of plain ASCII  *)
(* (strings.Repeat("a", n)), a number is n.                                *)
(***************************************************************************)
GoString(n) == [t |-> "string", n |-> n]
GoInt(n) == [t |-> "int", n |-> n]
GoFloat64(n) == [t |-> "float64", n |-> n]
\* A value encoding/json cannot marshal (a channel).
GoChan == [t |-> "chan", n |-> 0]

\* Keys of session.Values: the string key of TestStore and an int key.
StringKey(s) == [t |-> "string", v |-> s]
IntKey == [t |-> "int", v |-> "1"]
KeyLen(s) == CASE s = "testkey" -> 7 [] s = "store" -> 5 [] OTHER -> 1

\* The map with no entries (map[...]...{}).
EmptyMap == [x \in {} |-> x]

\* *sessions.Options: nil, or a pointer to an Options struct.
NilOptions == [nil |-> TRUE]
\* new(Options): the zero Options that sessions.NewSession installs.
ZeroOptions ==
  [Path |-> "", Domain |-> "", MaxAge |-> 0, Secure |-> FALSE,
   HttpOnly |-> FALSE, SameSite |-> 0]
\* Options an application sets.
AppOptions ==
  [Path |-> "/", Domain |-> "", MaxAge |-> 3600, Secure |-> TRUE,
   HttpOnly |-> TRUE, SameSite |-> 2]

(***************************************************************************)
(* encoding/json as store.go uses it.  The encoded text is modelled by the *)
(* JSON tree it denotes (json.Marshal writes struct fields in order and    *)
(* map keys sorted, so text and tree determine each other) together with   *)
(* its byte length, computed as json.Marshal lays the bytes out.           *)
(***************************************************************************)
JString(n) == [j |-> "string", n |-> n]
JNumber(n) == [j |-> "number", n |-> n]

\* The string "" that serialize returns beside an error.
EmptyString == [empty |-> TRUE]

RECURSIVE DecLen(_)
\* Number of decimal digits of n >= 0.
DecLen(n) == IF n < 10 THEN 1 ELSE 1 + DecLen(n \div 10)

StrLen(s) == CASE s = "" -> 0 [] s = "/" -> 1 [] OTHER -> 1
BoolLen(b) == IF b THEN 4 ELSE 5

\* Whether json.Marshal supports the value.
Marshalable(v) == v.t \in {"string", "int", "float64"}

\* json.Marshal of one value held in an interface{}.
MarshalValue(v) == IF v.t = "string" THEN JString(v.n) ELSE JNumber(v.n)

\* json.Unmarshal of one JSON value into an interface{}: a JSON number
\* becomes a float64, a JSON string a string.
UnmarshalValue(jv) == IF jv.j = "string" THEN GoString(jv.n) ELSE GoFloat64(jv.n)

\* Byte length of one encoded value.
JValueLen(jv) == IF jv.j = "string" THEN jv.n + 2 ELSE DecLen(jv.n)

RECURSIVE JEntriesLen(_, _)
\* Bytes of the entries "key":value of an object, without the separators.
JEntriesLen(ks, jvals) ==
  IF ks = {} THEN 0
  ELSE LET k == CHOOSE x \in ks : TRUE
       IN  (KeyLen(k) + 2) + 1 + JValueLen(jvals[k]) + JEntriesLen(ks \ {k}, jvals)

\* Bytes of {"k1":v1,"k2":v2,...}.
JObjectLen(jvals) ==
  LET ks == DOMAIN jvals
  IN  2 + JEntriesLen(ks, jvals) + (IF ks = {} THEN 0 ELSE Cardinality(ks) - 1)

\* Bytes of the encoded *sessions.Options: null, or the struct's six fields.
JOptionsLen(o) ==
  IF o = NilOptions THEN 4
  ELSE 2 + (7 + 2 + StrLen(o.Path)) + 1 + (9 + 2 + StrLen(o.Domain)) + 1
         + (9 + DecLen(o.MaxAge)) + 1 + (9 + BoolLen(o.Secure)) + 1
         + (11 + BoolLen(o.HttpOnly)) + 1 + (11 + DecLen(o.SameSite))

\* len(b) for b = json.Marshal(jsonSession{Values, ID, Options}):
\* {"Values":...,"ID":"...","Options":...}
JSessionLen(js) ==
  1 + 9 + JObjectLen(js.Values) + 1 + 5 + (IDLen(js.ID) + 2) + 1 + 10
    + JOptionsLen(js.Options) + 1

\* The identifier is left out of the encoded session.
jsonSession_NoID(values, id, options) ==
  [Values |-> values, ID |-> EmptyID, Options |-> options]

\* type jsonSession struct { Values; ID; Options }
jsonSession(values, id, options) ==
  [Values |-> values, ID |-> id, Options |-> options]

ErrNone == "nil"
ErrKeys == "only string keys supported"
ErrMarshal == "json.Marshal"
ErrMaxLength == "max length of session exceeded"

\* A key that is no string is silently passed over.
HasNonStringKey_Never(session) == FALSE

\* serialize, lines 180-184: the loop meets a key that is no string.
HasNonStringKey(session) == \E k \in DOMAIN session.Values : k.t # "string"

\* The size check with the comparison turned around to >=.
TooLong_OffByOne(b) == JSessionLen(b) >= maxLength

\* serialize, line 196: len(b) > maxLength
TooLong(b) == JSessionLen(b) > maxLength

\* func (s *Store) serialize(session) (string, error)
serialize(session) ==
  IF HasNonStringKey(session)
  THEN [out |-> EmptyString, err |-> ErrKeys]
  ELSE LET values == [ks \in {k.v : k \in {x \in DOMAIN session.Values : x.t = "string"}} |->
                        session.Values[StringKey(ks)]]
       IN  IF \E ks \in DOMAIN values : ~Marshalable(values[ks])
           THEN [out |-> EmptyString, err |-> ErrMarshal]
           ELSE LET b == jsonSession([ks \in DOMAIN values |-> MarshalValue(values[ks])],
                                     session.ID, session.Options)
                IN  IF TooLong(b)
                    THEN [out |-> EmptyString, err |-> ErrMaxLength]
                    ELSE [out |-> b, err |-> ErrNone]

\* func (*Store) deserialize(s string) (*sessions.Session, error): the
\* ID, Values and Options of the session it returns.
deserialize(s) ==
  IF s = EmptyString
  THEN [ok |-> FALSE, ID |-> EmptyID, Values |-> EmptyMap, Options |-> NilOptions]
  ELSE [ok |-> TRUE,
        ID |-> s.ID,
        Values |-> [k \in {StringKey(ks) : ks \in DOMAIN s.Values} |->
                      UnmarshalValue(s.Values[k.v])],
        Options |-> s.Options]

(***************************************************************************)
(* The state: the Firestore collection(s), and the requests being served.  *)
(***************************************************************************)
VARIABLES
  docs,      \* docs[name][id]: the document of collection name with that id
  nextId,    \* number of ids NewDoc has generated so far
  pc,        \* pc[r]: "none" (not yet received), "handler" (application code
             \*        runs), "put" (Save waits for DocumentRef.Set to complete),
             \*        "done" (the handler has returned or panicked)
  cookie,    \* cookie[r][name]: value of the request's cookie name, "" if unset
  sess,      \* sess[r]: the *sessions.Session the handler holds
  reg,       \* reg[r][name]: the request's sessions.Registry entry for name
  encoded,   \* encoded[r]: Save's local sessionString
  raced,     \* raced[r]: another Save wrote r's document while r waits in Set
  writes,    \* writes: assignments handlers have made to their sessions
  calls,     \* calls: calls of New, Get and Save made so far
  saved,     \* saved[name][id]: session.Values of the Save that wrote the
             \*        document last, if that Save returned nil
  last,      \* the most recent call of New, Get or Save and what it returned
  codec      \* a direct call of serialize and deserialize: input and results

storeVars ==
  <<docs, nextId, pc, cookie, sess, reg, encoded, raced, writes, calls, saved,
    last>>

vars == <<storeVars, codec>>

\* The requests that can be in progress at the same time.
Reqs == {"r1", "r2"}

\* Number of calls of New, Get and Save in one run.
MaxCalls == 4

\* Number of assignments handlers make to their sessions in one run.
MaxWrites == 1

NoDoc == [absent |-> TRUE]
NoSession == [none |-> TRUE]
NoEntry == [unset |-> TRUE]
NoCookie == [unset |-> TRUE]
NoSaved == [set |-> FALSE, vals |-> EmptyMap]
SavedValues(values) == [set |-> TRUE, vals |-> values]
\* The registry's session is the very object the handler holds in sess[r].
Held == [held |-> TRUE]

\* type sessionDoc struct { EncodedSession string }
sessionDoc(s) == [EncodedSession |-> s]

\* sessions.NewSession(s, name): empty Values, new(Options), IsNew false.
NewSession(name) ==
  [name |-> name, ID |-> EmptyID, Values |-> EmptyMap, Options |-> ZeroOptions,
   IsNew |-> FALSE]

ErrGet == "Get"
ErrCreate == "Create"
ErrUnmarshal == "json.Unmarshal"
\* saveIDInCookie dereferences a nil *sessions.Options: a run-time panic.
ErrPanic == "panic: nil pointer dereference"

\* func (s *Store) readIDFromCookie(r, name): c.Value, or "" with an error
\* when the request has no cookie of that name.
readIDFromCookie(r, name) == cookie[r][name]

\* What DocumentRef.Get can return for Collection(name).Doc(id): the
\* document, codes.NotFound when there is none, or another backend error.
FetchOutcomes(name, id) ==
  {[code |-> "Unavailable", doc |-> NoDoc]}
    \cup (IF docs[name][id] = NoDoc
          THEN {[code |-> "NotFound", doc |-> NoDoc]}
          ELSE {[code |-> "OK", doc |-> docs[name][id]]})

\* The session is returned without IsNew being set.
NewWithoutID_NotNew(session) ==
  [session |-> session, err |-> ErrNone, fetches |-> 0]

\* New, lines 82-86: no ID in the cookie means the session is new.
NewWithoutID(session) ==
  [session |-> [session EXCEPT !.IsNew = TRUE], err |-> ErrNone, fetches |-> 0]

\* NotFound is treated like every other error of Get.
NewNotFound_IsError(session) ==
  [session |-> session, err |-> ErrGet, fetches |-> 1]

\* New, lines 90-94: a NotFound error means the session is new.
NewNotFound(session) ==
  [session |-> [session EXCEPT !.IsNew = TRUE], err |-> ErrNone, fetches |-> 1]

\* A document that cannot be decoded is taken for a new session.
NewFound_SwallowsError(session, doc) ==
  LET cachedSession == deserialize(doc.EncodedSession)
  IN  IF ~cachedSession.ok
      THEN [session |-> [session EXCEPT !.IsNew = TRUE], err |-> ErrNone, fetches |-> 1]
      ELSE [session |-> [session EXCEPT !.ID = cachedSession.ID,
                                        !.Values = cachedSession.Values,
                                        !.Options = cachedSession.Options,
                                        !.IsNew = FALSE],
            err |-> ErrNone, fetches |-> 1]

\* New, lines 99-113: the session was found; decode it into the session.
NewFound(session, doc) ==
  LET cachedSession == deserialize(doc.EncodedSession)
  IN  IF ~cachedSession.ok
      THEN [session |-> session, err |-> ErrUnmarshal, fetches |-> 1]
      ELSE [session |-> [session EXCEPT !.ID = cachedSession.ID,
                                        !.Values = cachedSession.Values,
                                        !.Options = cachedSession.Options,
                                        !.IsNew = FALSE],
            err |-> ErrNone, fetches |-> 1]

\* func (s *Store) New(r, name): the session and error it returns and the
\* number of fetches it made, given the outcome of Doc(id).Get.
StoreNew(r, name, out) ==
  LET session == NewSession(name)
      id == readIDFromCookie(r, name)
  IN  IF id = EmptyID THEN NewWithoutID(session)
      ELSE IF out.code = "NotFound" THEN NewNotFound(session)
      ELSE IF out.code # "OK"
      THEN [session |-> session, err |-> ErrGet, fetches |-> 1]
      ELSE NewFound(session, out.doc)

\* What a request's own successful Save stored, and whether the session it
\* saved came from New (and not from Get's registry).
NoOwn == [set |-> FALSE, vals |-> EmptyMap, fromNew |-> FALSE]
OwnSave(values, fromNew) == [set |-> TRUE, vals |-> values, fromNew |-> fromNew]

\* `last` before any call; a call leaves the fields it does not use as here.
NoCall ==
  [op |-> "none", req |-> "none", name |-> "", id |-> EmptyID, err |-> ErrNone,
   session |-> NoSession, fetches |-> 0, puts |-> 0, setCookie |-> NoCookie,
   code |-> "none", enc |-> EmptyString, before |-> NoDoc, nth |-> 0,
   hist |-> NoSaved, own |-> NoOwn, raced |-> FALSE]

\* The values this request's own successful Save stored, carried along the
\* calls the request makes right after it.
OwnSaved(r) == IF last.req = r THEN last.own ELSE NoOwn

\* The handler's session is the object the registry holds for its name.
InRegistry(r) ==
  reg[r][sess[r].name] # NoEntry /\ reg[r][sess[r].name].s = Held

\* The values the last successful Save stored under the request's cookie id.
History(r, name) ==
  IF readIDFromCookie(r, name) = EmptyID THEN NoSaved
  ELSE saved[name][readIDFromCookie(r, name)]

\* The registry keeps the object the handler held until now.
Release(r) ==
  [n \in Names |->
     IF reg[r][n] # NoEntry /\ reg[r][n].s = Held
     THEN [reg[r][n] EXCEPT !.s = sess[r]]
     ELSE reg[r][n]]

\* The values a handler stores in its session: the string of TestStore, an
\* int, the oversized string of TestMaxLength, and an entry with an int key.
BigLen == 9 * (2 ^ 20)
Writes ==
  { <<StringKey("testkey"), GoString(9)>>, <<StringKey("testkey"), GoInt(1)>>,
    <<StringKey("testkey"), GoString(BigLen)>>, <<IntKey, GoString(9)>> }

(***************************************************************************)
(* The environment: requests arrive and end, handlers change the session.  *)
(* Requests are served concurrently.  What a handler does between two      *)
(* backend calls touches only its own request, so it commutes with the     *)
(* steps of other requests: the model runs one handler at a time and       *)
(* switches to another request only while the first waits in Set or ends.  *)
(***************************************************************************)
\* No other request is running handler code.
MayRun(r) == \A q \in Reqs \ {r} : pc[q] # "handler"

\* Requests are numbered in their order of arrival.
Earlier(r) == IF r = "r1" THEN {} ELSE {"r1"}
MayStart(r) == MayRun(r) /\ \A q \in Earlier(r) : pc[q] # "none"

\* A request arrives; it carries any cookie value, or none.
StartRequest(r) ==
  /\ pc[r] = "none"
  /\ UNCHANGED codec
  /\ MayStart(r)
  /\ \E c \in [Names -> IDOrEmpty] : cookie' = [cookie EXCEPT ![r] = c]
  /\ pc' = [pc EXCEPT ![r] = "handler"]
  /\ UNCHANGED <<calls, docs, nextId, sess, reg, encoded, raced, writes, saved>>
  /\ last' = NoCall

\* The handler returns: the request, its registry and its session are gone.
EndRequest(r) ==
  /\ pc[r] = "handler"
  /\ UNCHANGED codec
  /\ pc' = [pc EXCEPT ![r] = "done"]
  /\ cookie' = [cookie EXCEPT ![r] = [n \in Names |-> EmptyID]]
  /\ sess' = [sess EXCEPT ![r] = NoSession]
  /\ reg' = [reg EXCEPT ![r] = [n \in Names |-> NoEntry]]
  /\ UNCHANGED <<writes, calls, docs, nextId, encoded, raced, saved>>
  /\ last' = NoCall

\* session.Values[k] = v
SetValue(r) ==
  /\ pc[r] = "handler"
  /\ UNCHANGED codec
  /\ sess[r] # NoSession
  /\ writes < MaxWrites
  /\ \E w \in Writes :
       sess' = [sess EXCEPT ![r].Values =
                  [k \in DOMAIN sess[r].Values \cup {w[1]} |->
                     IF k = w[1] THEN w[2] ELSE sess[r].Values[k]]]
  /\ writes' = writes + 1
  /\ UNCHANGED <<calls, docs, nextId, pc, cookie, reg, encoded, raced, saved>>
  /\ last' = NoCall

\* session.Options = o, for o nil or the application's options.
SetOptions(r) ==
  /\ pc[r] = "handler"
  /\ UNCHANGED codec
  /\ sess[r] # NoSession
  /\ writes < MaxWrites
  /\ \E o \in {NilOptions, AppOptions} :
       /\ o # sess[r].Options
       /\ sess' = [sess EXCEPT ![r].Options = o]
  /\ writes' = writes + 1
  /\ UNCHANGED <<calls, docs, nextId, pc, cookie, reg, encoded, raced, saved>>
  /\ last' = NoCall

(***************************************************************************)
(* The store's operations.                                                 *)
(***************************************************************************)
\* func (s *Store) New(r, name)
New(r) ==
  /\ pc[r] = "handler"
  /\ UNCHANGED codec
  /\ calls < MaxCalls
  /\ calls' = calls + 1
  /\ \E name \in Names :
       \E out \in (IF readIDFromCookie(r, name) = EmptyID
                   THEN {[code |-> "none", doc |-> NoDoc]}
                   ELSE FetchOutcomes(name, readIDFromCookie(r, name))) :
         LET res == StoreNew(r, name, out)
         IN  /\ sess' = [sess EXCEPT ![r] = res.session]
             /\ reg' = [reg EXCEPT ![r] = Release(r)]
             /\ last' = [NoCall EXCEPT !.op = "New", !.req = r, !.name = name,
                                       !.id = readIDFromCookie(r, name),
                                       !.err = res.err, !.session = res.session,
                                       !.fetches = res.fetches, !.code = out.code,
                                       !.hist = History(r, name),
                                       !.own = OwnSaved(r)]
  /\ UNCHANGED <<docs, nextId, pc, cookie, encoded, raced, writes, saved>>

\* func (s *Store) Get(r, name): sessions.GetRegistry(r).Get(s, name) returns
\* the session (and error) the registry holds for name and calls s.New only
\* when it holds none, keeping what New returned.
Get(r) ==
  /\ pc[r] = "handler"
  /\ UNCHANGED codec
  /\ calls < MaxCalls
  /\ calls' = calls + 1
  /\ \E name \in Names :
       IF reg[r][name] = NoEntry
       THEN \E out \in (IF readIDFromCookie(r, name) = EmptyID
                        THEN {[code |-> "none", doc |-> NoDoc]}
                        ELSE FetchOutcomes(name, readIDFromCookie(r, name))) :
              LET res == StoreNew(r, name, out)
              IN  /\ sess' = [sess EXCEPT ![r] = res.session]
                  /\ reg' = [reg EXCEPT ![r] =
                               [Release(r) EXCEPT ![name] = [s |-> Held, e |-> res.err]]]
                  /\ last' = [NoCall EXCEPT !.op = "Get", !.req = r, !.name = name,
                                            !.id = readIDFromCookie(r, name),
                                            !.err = res.err, !.session = res.session,
                                            !.fetches = res.fetches,
                                            !.code = out.code,
                                            !.hist = History(r, name),
                                            !.own = OwnSaved(r)]
       ELSE LET session == IF reg[r][name].s = Held THEN sess[r] ELSE reg[r][name].s
            IN  /\ sess' = [sess EXCEPT ![r] = session]
                /\ reg' = [reg EXCEPT ![r] =
                             [Release(r) EXCEPT ![name] = [s |-> Held, e |-> reg[r][name].e]]]
                /\ last' = [NoCall EXCEPT !.op = "Get", !.req = r, !.name = name,
                                          !.id = readIDFromCookie(r, name),
                                          !.err = reg[r][name].e, !.session = session,
                                          !.hist = History(r, name),
                                          !.own = OwnSaved(r)]
  /\ UNCHANGED <<docs, nextId, pc, cookie, encoded, raced, writes, saved>>

\* s.client.Collection(name).NewDoc().ID: an id NewDoc has not generated
\* before.
NewDocID == nextId + 1

\* session.ID is not looked at.
SaveID_IgnoresSessionID(r) ==
  IF readIDFromCookie(r, sess[r].name) # EmptyID
  THEN readIDFromCookie(r, sess[r].name)
  ELSE NewDocID

\* Every Save takes a new document's id.
SaveID_Reallocates(r) == NewDocID

\* The cookie is not consulted.
SaveID_IgnoresCookie(r) ==
  IF sess[r].ID # EmptyID THEN sess[r].ID ELSE NewDocID

\* The cookie's value is preferred to session.ID.
SaveID_CookieFirst(r) ==
  IF readIDFromCookie(r, sess[r].name) # EmptyID
  THEN readIDFromCookie(r, sess[r].name)
  ELSE IF sess[r].ID # EmptyID THEN sess[r].ID
  ELSE NewDocID

\* Save, lines 118-125: the identifier Save stores under: session.ID, else
\* the cookie's value, else a new document's id.
SaveID(r) ==
  IF sess[r].ID # EmptyID THEN sess[r].ID
  ELSE IF readIDFromCookie(r, sess[r].name) # EmptyID
  THEN readIDFromCookie(r, sess[r].name)
  ELSE NewDocID

\* Whether Save calls NewDoc.
SaveAllocates(r) ==
  sess[r].ID = EmptyID /\ readIDFromCookie(r, sess[r].name) = EmptyID

\* A document that exists is left as it is (Create in place of Set).
Set_KeepsExisting(name, id, doc) ==
  IF docs[name][id] = NoDoc THEN [docs EXCEPT ![name][id] = doc] ELSE docs

\* Set replaces the collection by the one document.
Set_DropsOthers(name, id, doc) ==
  [docs EXCEPT ![name] = [i \in IDs |-> IF i = id THEN doc ELSE NoDoc]]

\* Collection(name).Doc(id).Set(ctx, doc): the collection afterwards.
Set(name, id, doc) == [docs EXCEPT ![name][id] = doc]

\* The cookie saveIDInCookie hands to http.SetCookie.
saveIDInCookie(name, id, opts) ==
  [Name |-> name, Value |-> id, Path |-> opts.Path, Domain |-> opts.Domain,
   MaxAge |-> opts.MaxAge, Secure |-> opts.Secure, HttpOnly |-> opts.HttpOnly,
   SameSite |-> opts.SameSite]

\* Save, lines 118-132: resolve the identifier, assign it to the session
\* and serialize; an encoding error is returned at once.
SaveBegin(r) ==
  /\ pc[r] = "handler"
  /\ UNCHANGED codec
  /\ calls < MaxCalls
  /\ calls' = calls + 1
  /\ sess[r] # NoSession
  /\ SaveAllocates(r) => nextId < MaxIds
  /\ LET id == SaveID(r)
         session == [sess[r] EXCEPT !.ID = id]
         ser == serialize(session)
     IN  /\ nextId' = IF SaveAllocates(r) THEN nextId + 1 ELSE nextId
         /\ sess' = [sess EXCEPT ![r] = session]
         /\ raced' = [raced EXCEPT ![r] = FALSE]
         /\ IF ser.err # ErrNone
            THEN /\ last' = [NoCall EXCEPT !.op = "Save", !.req = r,
                                           !.name = session.name, !.id = id,
                                           !.err = ser.err, !.session = session]
                 /\ UNCHANGED <<pc, encoded>>
            ELSE /\ encoded' = [encoded EXCEPT ![r] = ser.out]
                 /\ pc' = [pc EXCEPT ![r] = "put"]
                 /\ UNCHANGED last
  /\ UNCHANGED <<docs, cookie, reg, writes, saved>>

\* The document is written although Set reported an error.
SetFailed_StillWrites(r, call) ==
  /\ last' = [call EXCEPT !.err = ErrCreate]
  /\ pc' = [pc EXCEPT ![r] = "handler"]
  /\ raced' = [raced EXCEPT ![r] = FALSE]
  /\ docs' = [docs EXCEPT ![call.name][call.id] = sessionDoc(call.enc)]
  /\ UNCHANGED <<saved, cookie, sess, reg, writes, calls>>

\* Save, lines 134-136: Set returned an error; Save returns it wrapped, with
\* nothing written and no cookie set.
SetFailed(r, call) ==
  /\ last' = [call EXCEPT !.err = ErrCreate]
  /\ pc' = [pc EXCEPT ![r] = "handler"]
  /\ raced' = [raced EXCEPT ![r] = FALSE]
  /\ UNCHANGED <<docs, saved, cookie, sess, reg, writes, calls>>

\* Save, lines 134-140: Set completes, with an error or not; after a
\* successful Set the cookie is written from session.Options, which panics
\* when Options is nil.
SavePut(r) ==
  /\ pc[r] = "put"
  /\ UNCHANGED codec
  /\ MayRun(r)
  /\ LET session == sess[r]
         name == session.name
         id == session.ID
         call == [NoCall EXCEPT !.op = "Save", !.req = r, !.name = name, !.id = id,
                                !.session = session, !.puts = 1,
                                !.enc = encoded[r], !.before = docs[name][id],
                                !.raced = raced[r]]
         again == last.op = "Save" /\ last.req = r /\ last.err = ErrNone
                    /\ last.session = session
     IN  \E ok \in BOOLEAN :
           IF ~ok
           THEN SetFailed(r, call)
           ELSE /\ docs' = Set(name, id, sessionDoc(encoded[r]))
                /\ saved' = [saved EXCEPT ![name][id] =
                               IF session.Options = NilOptions THEN NoSaved
                               ELSE SavedValues(session.Values)]
                /\ raced' = [q \in Reqs |->
                               IF q = r THEN FALSE
                               ELSE IF pc[q] = "put" /\ sess[q].name = name
                                       /\ sess[q].ID = id
                               THEN TRUE ELSE raced[q]]
                /\ IF session.Options = NilOptions
                   THEN /\ last' = [call EXCEPT !.err = ErrPanic]
                        /\ pc' = [pc EXCEPT ![r] = "done"]
                        /\ cookie' = [cookie EXCEPT ![r] = [n \in Names |-> EmptyID]]
                        /\ sess' = [sess EXCEPT ![r] = NoSession]
                        /\ reg' = [reg EXCEPT ![r] = [n \in Names |-> NoEntry]]
                        /\ UNCHANGED <<writes, calls>>
                   ELSE /\ last' = [call EXCEPT
                                      !.setCookie = saveIDInCookie(name, id, session.Options),
                                      !.nth = IF again THEN last.nth + 1 ELSE 1,
                                      !.own = OwnSave(session.Values, ~InRegistry(r))]
                        /\ pc' = [pc EXCEPT ![r] = "handler"]
                        /\ UNCHANGED <<cookie, sess, reg, writes, calls>>
  /\ encoded' = [encoded EXCEPT ![r] = EmptyString]
  /\ UNCHANGED nextId

StoreInit ==
  /\ docs = [n \in Names |-> [i \in IDs |-> NoDoc]]
  /\ nextId = 0
  /\ pc = [r \in Reqs |-> "none"]
  /\ cookie = [r \in Reqs |-> [n \in Names |-> EmptyID]]
  /\ sess = [r \in Reqs |-> NoSession]
  /\ reg = [r \in Reqs |-> [n \in Names |-> NoEntry]]
  /\ encoded = [r \in Reqs |-> EmptyString]
  /\ raced = [r \in Reqs |-> FALSE]
  /\ writes = 0
  /\ calls = 0
  /\ saved = [n \in Names |-> [i \in IDs |-> NoSaved]]
  /\ last = NoCall

Next ==
  \E r \in Reqs :
    \/ StartRequest(r)
    \/ EndRequest(r)
    \/ SetValue(r)
    \/ SetOptions(r)
    \/ New(r)
    \/ Get(r)
    \/ SaveBegin(r)
    \/ SavePut(r)

(***************************************************************************)
(* The codec called directly, as TestMaxLength calls serialize: the input  *)
(* session is drawn from CodecInputs, serialize is applied to it, and      *)
(* deserialize to the string serialize returned.                           *)
(***************************************************************************)
\* The string length that makes the encoding of a session with one entry
\* "testkey", a non-empty ID and new(Options) exactly maxLength bytes long.
FillLen ==
  maxLength
    - JSessionLen(jsonSession([k \in {"testkey"} |-> JString(0)], 1, ZeroOptions))

\* The values of the entry "testkey" in the inputs.
CodecValues ==
  { GoString(9), GoString(FillLen), GoString(FillLen + 1), GoString(BigLen),
    GoInt(1), GoFloat64(1), GoChan }

\* session.Values of the inputs: "testkey" with one of the values or unset,
\* "store" and the int key set or unset.
CodecMaps ==
  { [k \in ks |-> IF k = StringKey("testkey") THEN v ELSE GoString(9)] :
      <<ks, v>> \in (SUBSET {StringKey("testkey"), StringKey("store"), IntKey})
                       \X CodecValues }

CodecInputs ==
  [name : Names, ID : IDOrEmpty, Values : CodecMaps,
   Options : {NilOptions, ZeroOptions, AppOptions}, IsNew : {TRUE}]

NoResult == [out |-> EmptyString, err |-> ErrNone]
NoDecoded ==
  [ok |-> FALSE, ID |-> EmptyID, Values |-> EmptyMap, Options |-> NilOptions]
CodecIdle ==
  [phase |-> "idle", session |-> NoSession, ser |-> NoResult, back |-> NoDecoded]

CodecInit ==
  /\ StoreInit
  /\ \E s \in CodecInputs :
       codec = [phase |-> "input", session |-> s, ser |-> NoResult,
                back |-> NoDecoded]

\* sessionStr, err := s.serialize(session)
Serialize ==
  /\ codec.phase = "input"
  /\ codec' = [codec EXCEPT !.phase = "serialized", !.ser = serialize(codec.session)]
  /\ UNCHANGED storeVars

\* s.deserialize(sessionStr), when serialize returned no error
Deserialize ==
  /\ codec.phase = "serialized"
  /\ codec.ser.err = ErrNone
  /\ codec' = [codec EXCEPT !.phase = "deserialized",
                            !.back = deserialize(codec.ser.out)]
  /\ UNCHANGED storeVars

CodecNext == Serialize \/ Deserialize

Init == StoreInit /\ codec = CodecIdle

\* The store serving requests.
Spec == Init /\ [][Next]_vars

\* The codec applied to a session.
CodecSpec == CodecInit /\ [][CodecNext]_vars

(***************************************************************************)
(* The store used on a collection that holds documents already: documents  *)
(* earlier runs saved, under their own identifier or (written by another   *)
(* program using the collection) under another key, and documents whose    *)
(* EncodedSession is the empty string, which json.Unmarshal rejects.       *)
(***************************************************************************)
\* The documents a key of the collection can hold at the start.
PriorDocs ==
  {NoDoc, sessionDoc(EmptyString)}
    \cup {sessionDoc(jsonSession([ks \in {"testkey"} |-> JString(9)], i, ZeroOptions)) :
            i \in IDs}

\* One request, with any cookie, is being served.
PopulatedInit ==
  /\ docs \in [Names -> [IDs -> PriorDocs]]
  /\ nextId = 0
  /\ pc = [r \in Reqs |-> IF r = "r1" THEN "handler" ELSE "none"]
  /\ cookie \in {[r \in Reqs |-> IF r = "r1" THEN c ELSE [n \in Names |-> EmptyID]] :
                   c \in [Names -> IDOrEmpty]}
  /\ sess = [r \in Reqs |-> NoSession]
  /\ reg = [r \in Reqs |-> [n \in Names |-> NoEntry]]
  /\ encoded = [r \in Reqs |-> EmptyString]
  /\ raced = [r \in Reqs |-> FALSE]
  /\ writes = 0
  /\ calls = 0
  /\ saved = [n \in Names |-> [i \in IDs |-> NoSaved]]
  /\ last = NoCall
  /\ codec = CodecIdle

PopulatedNext ==
  \E r \in Reqs :
    \/ New(r)
    \/ Get(r)
    \/ SaveBegin(r)
    \/ SavePut(r)

\* The store's operations on a collection that holds documents.
PopulatedSpec == PopulatedInit /\ [][PopulatedNext]_vars

(***************************************************************************)
(* Properties.                                                             *)
(***************************************************************************)
\* All keys of session.Values are strings.
StringKeyed(session) == \A k \in DOMAIN session.Values : k.t = "string"

\* json.Marshal accepts every value of the session.
AllMarshalable(session) == \A k \in DOMAIN session.Values : Marshalable(session.Values[k])

\* The JSON a string-keyed session encodes to.
Encoding(session) ==
  jsonSession([ks \in {k.v : k \in DOMAIN session.Values} |->
                 MarshalValue(session.Values[StringKey(ks)])],
              session.ID, session.Options)

\* Save has no encoding for the session: a key is not a string, or the
\* encoding is longer than 2 MiB.
Unencodable(session) ==
  \/ ~StringKeyed(session)
  \/ AllMarshalable(session) /\ JSessionLen(Encoding(session)) > 2097152

\* The step in which request r calls Save (lines 118-132).
SaveBeginStep(r) ==
  /\ pc[r] = "handler"
  /\ calls' = calls + 1
  /\ pc'[r] = "put" \/ (last'.op = "Save" /\ last'.req = r)

\* The step in which the Set of request r's Save completes and the backend
\* reports no error.
SavePutStep(r) == pc[r] = "put" /\ pc'[r] # "put" /\ last'.err # ErrCreate

\* C1 (as claimed, for New): once a Save of string-keyed values has returned
\* nil, a later New on a request whose cookie carries the identifier of that
\* Save returns no error and a session with IsNew = false whose values equal
\* the saved values, no other Save having written the document since.
C1_SaveThenNew ==
  (last.op = "New" /\ last.hist.set /\ last.code # "Unavailable")
    => /\ last.err = ErrNone
       /\ last.session.IsNew = FALSE
       /\ last.session.Values = last.hist.vals

\* C2 (as claimed): after New(r, name) and a successful Save(r, w, session),
\* Get(r, name) and New(r, name) with the same request return a session with
\* the saved values and IsNew = false.
C2_SameRequestGetsSaved ==
  (last.op \in {"New", "Get"} /\ last.own.set /\ last.own.fromNew
     /\ last.code # "Unavailable")
    => /\ last.session.IsNew = FALSE
       /\ last.session.Values = last.own.vals

C4_NotFoundIsNew ==
  (last.op = "New" /\ last.id # EmptyID /\ last.code = "NotFound")
    => /\ last.err = ErrNone
       /\ last.session.IsNew = TRUE
       /\ last.session.Values = EmptyMap

C4_Witness ==
  /\ last.op = "New"
  /\ last.id # EmptyID
  /\ last.code = "NotFound"
  /\ last.fetches = 1
  /\ last.session.IsNew = TRUE

\* C5 (as claimed): for a string-keyed session that serialize encodes (the
\* encoding is at most 2 MiB), deserialize of the encoding succeeds and
\* returns a session with the same identifier, values and options.
C5_RoundTrip ==
  (codec.phase = "deserialized" /\ StringKeyed(codec.session))
    => /\ codec.back.ok
       /\ codec.back.ID = codec.session.ID
       /\ codec.back.Values = codec.session.Values
       /\ codec.back.Options = codec.session.Options

\* C6: serialize returns the max-length error exactly when the encoding of
\* the session is longer than 2,097,152 bytes, and no error when it is at
\* most that long.
C6_SizeBound ==
  codec.phase \in {"serialized", "deserialized"}
    => /\ codec.ser.err = ErrMaxLength
            <=> /\ StringKeyed(codec.session)
                /\ AllMarshalable(codec.session)
                /\ JSessionLen(Encoding(codec.session)) > 2097152
       /\ (/\ StringKeyed(codec.session)
           /\ AllMarshalable(codec.session)
           /\ JSessionLen(Encoding(codec.session)) <= 2097152)
            => /\ codec.ser.err = ErrNone
               /\ codec.ser.out = Encoding(codec.session)

\* An encoding of exactly 2,097,152 bytes, serialized without error.
C6_Witness ==
  /\ codec.phase = "serialized"
  /\ StringKeyed(codec.session)
  /\ AllMarshalable(codec.session)
  /\ JSessionLen(Encoding(codec.session)) = 2097152
  /\ codec.ser.err = ErrNone

\* C7: a Save of a session with a non-string key, or whose encoding exceeds
\* the size bound, returns an error, leaves every document as it was and
\* sets no cookie.
C7_NoPartialWrite ==
  [][\A r \in Reqs :
       (SaveBeginStep(r) /\ Unencodable(sess'[r]))
         => /\ last'.op = "Save"
            /\ last'.req = r
            /\ last'.err \in {ErrKeys, ErrMaxLength}
            /\ last'.puts = 0
            /\ last'.setCookie = NoCookie
            /\ docs' = docs
            /\ pc'[r] = "handler"]_vars

\* A Save refused for its encoding while the collection holds a document.
C7_Witness ==
  /\ last.op = "Save"
  /\ last.err \in {ErrKeys, ErrMaxLength}
  /\ Unencodable(last.session)
  /\ \E i \in IDs : docs[last.name][i] # NoDoc

\* C8: a second Save of the unchanged session right after a successful one
\* encodes the same document, allocates no identifier and, unless the
\* backend fails, returns nil having stored that document under the
\* identifier of the first Save and created no other document.
C8_IdempotentResave ==
  [][\A r \in Reqs :
       LET first == /\ last.op = "Save"
                    /\ last.req = r
                    /\ last.err = ErrNone
                    /\ sess[r] = last.session
       IN  /\ (first /\ SaveBeginStep(r))
             => /\ pc'[r] = "put"
                /\ nextId' = nextId
                /\ sess'[r] = sess[r]
                /\ encoded'[r] = last.enc
           /\ (first /\ SavePutStep(r))
             => /\ last'.err = ErrNone
                /\ last'.id = last.id
                /\ docs[last.name][last.id] # NoDoc
                /\ docs'[last.name] =
                     [docs[last.name] EXCEPT ![last.id] = sessionDoc(last.enc)]]_vars

\* The second of two successive Saves of one session has returned.
C8_Witness ==
  /\ last.op = "Save"
  /\ last.err = ErrNone
  /\ last.nth = 2
  /\ docs[last.name][last.id] = sessionDoc(last.enc)

\* C9: when another Save wrote the same document while this Save waited in
\* Set, this Save does not fail for it, and once its Set has completed the
\* document is exactly this Save's encoded session.
C9_LastWriterWins ==
  (last.op = "Save" /\ last.raced /\ last.puts = 1 /\ last.err # ErrCreate)
    => /\ docs[last.name][last.id] = sessionDoc(last.enc)
       /\ last.enc = Encoding(last.session)
       /\ last.session.Options # NilOptions => last.err = ErrNone

\* Two Saves of different sessions raced for one document: the later Set
\* replaced what the earlier one had stored.
C9_Witness ==
  /\ last.op = "Save"
  /\ last.raced
  /\ last.err = ErrNone
  /\ last.before # NoDoc
  /\ last.before # sessionDoc(last.enc)
  /\ docs[last.name][last.id] = sessionDoc(last.enc)

\* C10 (as claimed): whenever the Set inside Save succeeds, Save returns nil
\* and sets a cookie named after the session whose value is the document's
\* identifier and whose other fields are those of session.Options, for every
\* session, one without options included.
C10_CookieAfterPut ==
  (last.op = "Save" /\ last.puts = 1 /\ last.err # ErrCreate)
    => /\ last.err = ErrNone
       /\ last.setCookie # NoCookie
       /\ last.setCookie.Name = last.name
       /\ last.setCookie.Value = last.id
       /\ last.setCookie.Path = last.session.Options.Path
       /\ last.setCookie.Domain = last.session.Options.Domain
       /\ last.setCookie.MaxAge = last.session.Options.MaxAge
       /\ last.setCookie.Secure = last.session.Options.Secure
       /\ last.setCookie.HttpOnly = last.session.Options.HttpOnly
       /\ last.setCookie.SameSite = last.session.Options.SameSite

\* The document New fetched cannot be decoded.
Undecodable(doc) == doc # NoDoc /\ ~deserialize(doc.EncodedSession).ok

\* C11: when the cookie carries an identifier and the fetch fails with a
\* backend error other than NotFound, or the fetched document cannot be
\* decoded, New returns an error together with a session that has no values,
\* an empty identifier and nothing else of the stored document.
C11_NewErrorNotPartial ==
  (/\ last.op = "New"
   /\ last.id # EmptyID
   /\ \/ last.code = "Unavailable"
      \/ last.code = "OK" /\ Undecodable(docs[last.name][last.id]))
    => /\ last.err # ErrNone
       /\ last.fetches = 1
       /\ last.session = NewSession(last.name)
       /\ last.session.Values = EmptyMap
       /\ last.session.ID = EmptyID

\* New has fetched a document that cannot be decoded and returned the error.
C11_Witness ==
  /\ last.op = "New"
  /\ last.id # EmptyID
  /\ last.code = "OK"
  /\ Undecodable(docs[last.name][last.id])
  /\ last.err = ErrUnmarshal

\* C12: Save stores under session.ID when that is not empty, whatever the
\* cookie carries; else under the cookie's value when that is not empty; else
\* under a newly allocated identifier.  An identifier is allocated only when
\* both are empty, and the identifier chosen is assigned to session.ID before
\* the session is encoded, so the encoding contains it.
C12_IdentifierPrecedence ==
  [][\A r \in Reqs :
       SaveBeginStep(r)
         => LET c == cookie[r][sess[r].name]
            IN  /\ sess[r].ID # EmptyID
                     => sess'[r].ID = sess[r].ID /\ nextId' = nextId
                /\ (sess[r].ID = EmptyID /\ c # EmptyID)
                     => sess'[r].ID = c /\ nextId' = nextId
                /\ (sess[r].ID = EmptyID /\ c = EmptyID)
                     => sess'[r].ID = nextId + 1 /\ nextId' = nextId + 1
                /\ pc'[r] = "put" => encoded'[r].ID = sess'[r].ID
                /\ pc'[r] = "handler" => last'.id = sess'[r].ID]_vars

\* A Save of a session whose identifier differs from the non-empty value of
\* the request's cookie has stored the session under the session's identifier.
C12_Witness ==
  /\ last.op = "Save"
  /\ last.err = ErrNone
  /\ cookie[last.req][last.name] # EmptyID
  /\ cookie[last.req][last.name] # last.id
  /\ last.enc.ID = last.id
  /\ docs[last.name][last.id] = sessionDoc(last.enc)

\* The session request r holds is the new session New returned for a cookie
\* whose identifier had no document.
StaleNew(r) ==
  /\ sess[r] # NoSession
  /\ sess[r].IsNew
  /\ sess[r].ID = EmptyID
  /\ cookie[r][sess[r].name] # EmptyID

\* C13: New on a request whose cookie carries an identifier X without a
\* document returns a session with IsNew = true; a following Save of that
\* session with the same request allocates no identifier, writes the document
\* under X and sets the cookie to X; a New with cookie X right after that Save
\* returns a session with IsNew = false.
C13_StaleIdentifierReuse ==
  [][\A r \in Reqs :
       /\ (StaleNew(r) /\ SaveBeginStep(r))
            => /\ sess'[r].ID = cookie[r][sess[r].name]
               /\ nextId' = nextId
       /\ (/\ SavePutStep(r)
           /\ sess[r].IsNew
           /\ sess[r].ID = cookie[r][sess[r].name]
           /\ sess[r].Options # NilOptions)
            => /\ docs'[sess[r].name][sess[r].ID] = sessionDoc(encoded[r])
               /\ last'.err = ErrNone
               /\ last'.setCookie # NoCookie
               /\ last'.setCookie.Value = cookie[r][sess[r].name]
       /\ (/\ last.op = "Save"
           /\ last.req = r
           /\ last.err = ErrNone
           /\ last.session.IsNew
           /\ last.id = cookie[r][last.name]
           /\ last'.op = "New"
           /\ last'.req = r
           /\ last'.id = last.id
           /\ last'.code # "Unavailable")
            => /\ last'.err = ErrNone
               /\ last'.session.IsNew = FALSE
               /\ last'.session.ID = last.id]_vars

\* The Save of a session New returned as new for a cookie without document:
\* no identifier has been allocated, the document is stored under the
\* cookie's identifier and the cookie is set to it.
C13_Witness ==
  /\ last.op = "Save"
  /\ last.err = ErrNone
  /\ last.session.IsNew
  /\ last.id # EmptyID
  /\ last.id = cookie[last.req][last.name]
  /\ last.before = NoDoc
  /\ nextId = 0
  /\ docs[last.name][last.id] = sessionDoc(last.enc)
  /\ last.setCookie.Value = last.id

\* C14: when the Set inside Save fails, Save returns an error after that one
\* attempt, sets no cookie and leaves every document as it was; and New (also
\* when Get calls it) makes at most one fetch.
C14_PutFailureNoRetry ==
  [][\A r \in Reqs :
       /\ (pc[r] = "put" /\ pc'[r] # "put" /\ last'.err = ErrCreate)
            => /\ last'.op = "Save"
               /\ last'.req = r
               /\ last'.puts = 1
               /\ last'.setCookie = NoCookie
               /\ docs' = docs
               /\ cookie' = cookie
               /\ pc'[r] = "handler"
       /\ (calls' = calls + 1 /\ last'.op \in {"New", "Get"})
            => /\ last'.fetches <= 1
               /\ last'.puts = 0
               /\ docs' = docs]_vars

\* A Save whose Set failed, of a session that differs from the stored one:
\* the document is the one stored before.
C14_Witness ==
  /\ last.op = "Save"
  /\ last.err = ErrCreate
  /\ last.puts = 1
  /\ last.before # NoDoc
  /\ last.before # sessionDoc(last.enc)
  /\ docs[last.name][last.id] = last.before

C16_StoreFrame ==
  [][/\ \A n \in Names : \A i \in IDs :
          docs[n][i] # NoDoc => docs'[n][i] # NoDoc
     /\ \A r \in Reqs :
          (pc[r] = "handler" /\ calls' = calls + 1) => docs' = docs
     /\ docs' # docs
          => \E r \in Reqs :
               /\ pc[r] = "put"
               /\ pc'[r] # "put"
               /\ last'.op = "Save"
               /\ last'.req = r
               /\ last'.id = sess[r].ID
               /\ \A n \in Names : \A i \in IDs :
                    (n # sess[r].name \/ i # sess[r].ID) => docs'[n][i] = docs[n][i]]_vars

\* A Save has written its document while the collection holds the document
\* of another session, which is still there.
C16_Witness ==
  /\ last.op = "Save"
  /\ last.err = ErrNone
  /\ last.puts = 1
  /\ docs[last.name][last.id] = sessionDoc(last.enc)
  /\ \E i \in IDs \ {last.id} :
       /\ docs[last.name][i] # NoDoc
       /\ docs[last.name][i].EncodedSession.ID = i

\* C17: every document Save has written is stored under the identifier
\* encoded inside it; so a New that finds a document for the cookie's
\* identifier returns a session with that identifier, and a Save of that
\* session writes the document of that identifier again.
C17_KeyIdentifierAgreement ==
  [][/\ \A n \in Names : \A i \in IDs :
          docs'[n][i] # NoDoc => docs'[n][i].EncodedSession.ID = i
     /\ \A r \in Reqs :
          /\ (/\ pc[r] = "handler"
              /\ calls' = calls + 1
              /\ last'.op = "New"
              /\ last'.code = "OK"
              /\ last'.err = ErrNone)
               => last'.session.ID = cookie[r][last'.name]
          /\ (/\ last.op = "New"
              /\ last.req = r
              /\ last.code = "OK"
              /\ last.err = ErrNone
              /\ sess[r] = last.session
              /\ SaveBeginStep(r))
               => sess'[r].ID = last.id
          /\ SavePutStep(r)
               => /\ encoded[r].ID = sess[r].ID
                  /\ docs'[sess[r].name][sess[r].ID] = sessionDoc(encoded[r])]_vars

\* A session New decoded from the document of the cookie's identifier has
\* been saved again: the document written is the one it was read from.
C17_Witness ==
  /\ last.op = "Save"
  /\ last.err = ErrNone
  /\ last.session.IsNew = FALSE
  /\ last.id = cookie[last.req][last.name]
  /\ last.before # NoDoc
  /\ last.before.EncodedSession.ID = last.id
  /\ last.session.Values = deserialize(last.before.EncodedSession).Values
  /\ last.session.Values # EmptyMap
  /\ docs[last.name][last.id] = sessionDoc(last.enc)

\* Save returned an error of serialize or of Set.
SaveFailed(call) ==
  call.op = "Save" /\ call.err \in {ErrKeys, ErrMarshal, ErrMaxLength, ErrCreate}

\* C18: a Save, failing or not, leaves the session's values, options and
\* name as they are; it changes the identifier only from empty to non-empty.
\* After a Save that failed in serialize or in Set the resolved identifier is
\* still assigned to the session, and a retried Save uses it.
C18_SessionFrame ==
  [][\A r \in Reqs :
       /\ SaveBeginStep(r)
            => /\ sess'[r].name = sess[r].name
               /\ sess'[r].Values = sess[r].Values
               /\ sess'[r].Options = sess[r].Options
               /\ sess'[r].IsNew = sess[r].IsNew
               /\ sess'[r].ID # EmptyID
               /\ sess[r].ID # EmptyID => sess'[r].ID = sess[r].ID
               /\ pc'[r] = "handler" => last'.session = sess'[r]
       /\ (pc[r] = "put" /\ pc'[r] # "put")
            => /\ last'.session = sess[r]
               /\ pc'[r] = "handler" => sess'[r] = sess[r]
       /\ (SaveFailed(last) /\ last.req = r /\ pc[r] = "handler")
            => /\ sess[r] = last.session
               /\ sess[r].ID = last.id
               /\ last.id # EmptyID
               /\ SaveBeginStep(r) => sess'[r].ID = last.id /\ nextId' = nextId]_vars

\* A Save of a session without identifier, on a request without cookie, has
\* failed in serialize: the identifier allocated in the call is assigned to
\* the session, and no document is stored under it.
C18_Witness ==
  /\ last.op = "Save"
  /\ last.err \in {ErrKeys, ErrMaxLength}
  /\ cookie[last.req][last.name] = EmptyID
  /\ last.id # EmptyID
  /\ last.id = nextId
  /\ sess[last.req].ID = last.id
  /\ sess[last.req].Values = last.session.Values
  /\ docs[last.name][last.id] = NoDoc

====
